---- MODULE Spec2Model ----
(***************************************************************************)
(* Model of renRec.py, the recursive rename utility.                       *)
(*                                                                         *)
(* A string is a sequence of one-character strings.  A path is a sequence  *)
(* of base names relative to the working directory, so that                *)
(* os.path.join(d, e) is Append(d, e) and os.path.split(p) is              *)
(* <<Front(p), Last(p)>>.  Regular expressions are restricted to literal   *)
(* patterns (no metacharacters, no group references in the replacement).   *)
(***************************************************************************)
EXTENDS Integers, Sequences, FiniteSets, TLC

VARIABLES
    settings,   \* the parsed options (optparse values object)
    entries,    \* the FILE... arguments of the current run
    name,       \* filesystem: base name of every entry
    alive,      \* filesystem: the entries that exist
    stack,      \* call stack of run(): one frame per active run() call
    log,        \* rename attempts of the current run, in order
    status,     \* "running", "done" (main returned 0) or "aborted" (uncaught exception)
    runNo,      \* "first" or "second" invocation of main over the tree
    fs0,        \* the filesystem when the current run started, and whether the
                \* run before it changed a name and had every rename carried out
    calc        \* the name computation checked on its own (SpecName)

vars == <<settings, entries, name, alive, stack, log, status, runNo, fs0, calc>>

----------------------------------------------------------------------------
(* Bounds *)

MaxEntries == 2     \* number of FILE... arguments
MaxNameLen == 3     \* length of a base name given to the name computation
MaxPatLen == 2      \* length of the old and new patterns given to it

----------------------------------------------------------------------------
(* Strings *)

Alphabet == {"a", "A", "1"}

\* str.lower() and str.upper() on one character
LowerChar(c) == CASE c = "A" -> "a" [] c = "B" -> "b" [] OTHER -> c
UpperChar(c) == CASE c = "a" -> "A" [] c = "b" -> "B" [] OTHER -> c

lower(s) == [i \in 1..Len(s) |-> LowerChar(s[i])]
upper(s) == [i \in 1..Len(s) |-> UpperChar(s[i])]

Front(s) == SubSeq(s, 1, Len(s) - 1)
Last(s) == s[Len(s)]

\* all strings over Alphabet of length lo..hi
StringsOf(lo, hi) == UNION {[1..n -> Alphabet] : n \in lo..hi}

\* does literal pattern pat match s at position i (ic: re.IGNORECASE)
MatchAt(pat, s, i, ic) ==
    /\ i + Len(pat) - 1 <= Len(s)
    /\ \A k \in 1..Len(pat) :
          IF ic THEN LowerChar(s[i + k - 1]) = LowerChar(pat[k])
                ELSE s[i + k - 1] = pat[k]

RECURSIVE SubFrom(_, _, _, _, _)
SubFrom(pat, repl, s, i, ic) ==
    IF i > Len(s) THEN <<>>
    ELSE IF MatchAt(pat, s, i, ic)
         THEN repl \o SubFrom(pat, repl, s, i + Len(pat), ic)
         ELSE <<s[i]>> \o SubFrom(pat, repl, s, i + 1, ic)

\* variant: the flags are ignored and every substitution ignores case
subIgnoreCase(pat, repl, s, ic) == SubFrom(pat, repl, s, 1, TRUE)

\* re.sub(pat, repl, s, flags): replace the leftmost non-overlapping matches
sub(pat, repl, s, ic) == SubFrom(pat, repl, s, 1, ic)

----------------------------------------------------------------------------
(* The new base name, _rename_obj lines 144-160 *)

\* variant: the fallback is tried even when the direct substitution changed the name
NewBaseNameNoGuard(base_name, old_pat, new_pat, handle_lower, handle_upper) ==
    LET new_name == sub(old_pat, new_pat, base_name, FALSE)
        candid_name == sub(old_pat, new_pat, base_name, TRUE)
        after_lower ==
            IF handle_lower /\ lower(base_name) = base_name
            THEN lower(candid_name) ELSE new_name
        after_upper ==
            IF after_lower = base_name /\ handle_upper /\ upper(base_name) = base_name
            THEN upper(candid_name) ELSE after_lower
    IN  IF handle_lower \/ handle_upper THEN after_upper ELSE new_name

\* variant: the fallback does not test that the old name has a unified case
NewBaseNameNoCaseTest(base_name, old_pat, new_pat, handle_lower, handle_upper) ==
    LET new_name == sub(old_pat, new_pat, base_name, FALSE)
        candid_name == sub(old_pat, new_pat, base_name, TRUE)
        after_lower ==
            IF handle_lower THEN lower(candid_name) ELSE new_name
        after_upper ==
            IF after_lower = base_name /\ handle_upper
            THEN upper(candid_name) ELSE after_lower
    IN  IF new_name = base_name /\ (handle_lower \/ handle_upper)
        THEN after_upper ELSE new_name

\* variant: the lower-case branch folds the direct result, not the candidate
NewBaseNameLowerDirect(base_name, old_pat, new_pat, handle_lower, handle_upper) ==
    LET new_name == sub(old_pat, new_pat, base_name, FALSE)
        candid_name == sub(old_pat, new_pat, base_name, TRUE)
        after_lower ==
            IF handle_lower /\ lower(base_name) = base_name
            THEN lower(new_name) ELSE new_name
        after_upper ==
            IF after_lower = base_name /\ handle_upper /\ upper(base_name) = base_name
            THEN upper(candid_name) ELSE after_lower
    IN  IF new_name = base_name /\ (handle_lower \/ handle_upper)
        THEN after_upper ELSE new_name

NewBaseName(base_name, old_pat, new_pat, handle_lower, handle_upper) ==
    LET new_name == sub(old_pat, new_pat, base_name, FALSE)
        candid_name == sub(old_pat, new_pat, base_name, TRUE)
        after_lower ==
            IF handle_lower /\ lower(base_name) = base_name
            THEN lower(candid_name) ELSE new_name
        after_upper ==
            IF after_lower = base_name /\ handle_upper /\ upper(base_name) = base_name
            THEN upper(candid_name) ELSE after_lower
    IN  IF new_name = base_name /\ (handle_lower \/ handle_upper)
        THEN after_upper ELSE new_name

----------------------------------------------------------------------------
(* The filesystem: a fixed tree of entries below the working directory     *)
(* (entry 0); only base names and existence change.                        *)
(*      1 (dir)                                                             *)
(*      +-- 2 (file)                                                        *)
(*      +-- 3 (dir)                                                         *)
(*          +-- 4 (file)                                                    *)
(*          +-- 5 (file)                                                    *)

Parent == <<0, 1, 1, 3, 3>>
Kind == <<"dir", "file", "dir", "file", "file">>
Node == DOMAIN Parent

RECURSIVE Ancestors(_)
Ancestors(n) == IF Parent[n] = 0 THEN {} ELSE {Parent[n]} \cup Ancestors(Parent[n])

Descendants(d) == {n \in Node : d \in Ancestors(n)}

\* the entries a path denotes: at most one; {0} is the working directory
RECURSIVE Resolve(_, _, _)
Resolve(nm, al, p) ==
    IF p = <<>> THEN {0}
    ELSE {n \in al : Parent[n] \in Resolve(nm, al, Front(p)) /\ nm[n] = Last(p)}

RECURSIVE PathOf(_, _)
PathOf(nm, n) == IF n = 0 THEN <<>> ELSE Append(PathOf(nm, Parent[n]), nm[n])

\* os.path.isdir
isdir(p) == \E n \in Resolve(name, alive, p) : n # 0 /\ Kind[n] = "dir"

Orders(S) == {f \in [1..Cardinality(S) -> S] : \A i, j \in DOMAIN f : f[i] = f[j] => i = j}

\* variant: the listing leaves out the subdirectories
listdirFilesOnly(p) ==
    LET kids == {n \in alive : Parent[n] \in Resolve(name, alive, p) /\ Kind[n] = "file"}
    IN  {[i \in DOMAIN f |-> name[f[i]]] : f \in Orders(kids)}

\* os.listdir: the base names of the directory's entries, in arbitrary order
listdir(p) ==
    LET kids == {n \in alive : Parent[n] \in Resolve(name, alive, p)}
    IN  {[i \in DOMAIN f |-> name[f[i]]] : f \in Orders(kids)}

\* os.rename(src, dst) can succeed: the source exists and the target is free,
\* is the source itself, or is replaceable (a file by a file, an empty
\* directory by a directory)
CanRename(src, dst) ==
    /\ src # {}
    /\ \A n \in src : \A t \in dst \ src :
          \/ Kind[n] = "file" /\ Kind[t] = "file"
          \/ Kind[n] = "dir" /\ Kind[t] = "dir" /\ ~\E c \in alive : Parent[c] = t

----------------------------------------------------------------------------
(* _rename_obj, lines 132-168 *)

\* shell-style tokenization of a command line: words are separated by
\* spaces, and a quoted stretch keeps its spaces (i: position, word: the
\* word being read, quoted: inside quotes)
RECURSIVE ShellWordsFrom(_, _, _, _)
ShellWordsFrom(s, i, word, quoted) ==
    IF i > Len(s) THEN (IF word = <<>> THEN <<>> ELSE <<word>>)
    ELSE IF s[i] = "'" THEN ShellWordsFrom(s, i + 1, word, ~quoted)
    ELSE IF s[i] = " " /\ ~quoted
         THEN (IF word = <<>> THEN <<>> ELSE <<word>>)
              \o ShellWordsFrom(s, i + 1, <<>>, FALSE)
         ELSE ShellWordsFrom(s, i + 1, Append(word, s[i]), quoted)

ShellWords(s) == ShellWordsFrom(s, 1, <<>>, FALSE)

\* variant: the command line is split into shell words
ArgvSplit(ren_cmd, obj_name, new_name) ==
    ShellWords(ren_cmd) \o <<obj_name, new_name>>

\* the argument list given to subprocess.call
Argv(ren_cmd, obj_name, new_name) == <<ren_cmd, obj_name, new_name>>

\* variant: the command's exit status is checked (subprocess.check_call)
RaisesOnNonzero(outcome) == outcome \in {"error", "nolaunch", "nonzero"}

\* variant: a command that cannot be launched is ignored
RaisesOnlyNative(outcome) == outcome = "error"

\* variant: a failing os.rename is ignored
RaisesOnlyLaunch(outcome) == outcome = "nolaunch"

\* the outcomes that raise an exception out of _rename_obj: os.rename fails
\* (OSError), or subprocess.call cannot start the command (OSError); the
\* exit status that subprocess.call returns is dropped
Raises(outcome) == outcome \in {"error", "nolaunch"}

\* what the rename can do: os.rename succeeds ("ok") or fails ("error");
\* the command cannot be launched ("nolaunch"), exits nonzero leaving the
\* filesystem alone ("nonzero"), or exits zero having renamed what can be
\* renamed ("zero")
Outcomes(external, can) ==
    IF external THEN {"nolaunch", "nonzero", "zero"}
    ELSE IF can THEN {"ok", "error"} ELSE {"error"}

RenameObj(obj_name, callers, tree, mark) ==
    LET dir_name == Front(obj_name)
        base_name == Last(obj_name)
        new_base == NewBaseName(base_name, settings.old_name_regex,
                                settings.new_name_pat, settings.handle_lower,
                                settings.handle_upper)
        new_name == Append(dir_name, new_base)
        src == Resolve(name, alive, obj_name)
        dst == Resolve(name, alive, new_name)
        external == settings.ren_cmd # <<>>
        can == CanRename(src, dst)
    IN  \E outcome \in Outcomes(external, can) :
          LET renamed == outcome = "ok" \/ (outcome = "zero" /\ can)
          IN  /\ name' = IF renamed
                         THEN [n \in Node |-> IF n \in src THEN new_base ELSE name[n]]
                         ELSE name
              /\ alive' = IF renamed THEN alive \ (dst \ src) ELSE alive
              /\ log' = Append(log,
                     [obj |-> obj_name, new |-> new_name, node |-> src,
                      native |-> ~external,
                      argv |-> IF external
                               THEN Argv(settings.ren_cmd, obj_name, new_name)
                               ELSE <<>>,
                      result |-> outcome, tree |-> tree, since |-> mark,
                      names |-> name, alive |-> alive,
                      clash |-> dst \ src # {}])
              /\ status' = IF Raises(outcome) THEN "aborted" ELSE "running"
              /\ stack' = IF Raises(outcome) THEN <<>> ELSE callers
              /\ UNCHANGED <<settings, entries, runNo, fs0, calc>>

----------------------------------------------------------------------------
(* run and _rename_tree, lines 118-129 and 171-182 *)

\* variant: the directory is renamed without waiting for its entries
TreeReadyEarly(f) == TRUE

\* _rename_tree reaches its own _rename_obj when run() over the listing returned
TreeReady(f) == f.todo = <<>>

\* run: the current entry is a directory; _rename_tree lists it and calls run
RunTree ==
    /\ status = "running" /\ stack # <<>>
    /\ LET f == Last(stack)
       IN  /\ f.todo # <<>>
           /\ isdir(Head(f.todo))
           /\ \E l \in listdir(Head(f.todo)) :
                 stack' = Append(
                     [stack EXCEPT ![Len(stack)].todo = Tail(f.todo)],
                     [todo |-> [i \in DOMAIN l |-> Append(Head(f.todo), l[i])],
                      dir |-> Head(f.todo), mark |-> Len(log)])
    /\ UNCHANGED <<settings, entries, name, alive, log, status, runNo, fs0, calc>>

\* run: the current entry is not a directory; _rename_obj on it
RunObj ==
    /\ status = "running" /\ stack # <<>>
    /\ LET f == Last(stack)
       IN  /\ f.todo # <<>>
           /\ ~isdir(Head(f.todo))
           /\ RenameObj(Head(f.todo),
                        [stack EXCEPT ![Len(stack)].todo = Tail(f.todo)],
                        FALSE, Len(log))

\* _rename_tree: the entries are done; _rename_obj on the directory itself
TreeObj ==
    /\ status = "running" /\ Len(stack) > 1
    /\ LET f == Last(stack)
       IN  /\ TreeReady(f)
           /\ RenameObj(f.dir, Front(stack), TRUE, f.mark)

\* main: run returned; exit status 0
MainReturn ==
    /\ status = "running" /\ Len(stack) = 1
    /\ Last(stack).todo = <<>>
    /\ status' = "done"
    /\ stack' = <<>>
    /\ UNCHANGED <<settings, entries, name, alive, log, runNo, fs0, calc>>

\* the paths that now name what the arguments named when the run started
RenamedEntries ==
    [i \in DOMAIN entries |->
        LET r == Resolve(fs0.name, fs0.alive, entries[i])
        IN  IF r # {} /\ r \subseteq alive
            THEN PathOf(name, CHOOSE n \in r : TRUE) ELSE entries[i]]

\* main is invoked once more, with the same options, over the renamed tree
SecondRun ==
    /\ status = "done" /\ runNo = "first"
    /\ runNo' = "second"
    /\ entries' = RenamedEntries
    /\ stack' = <<[todo |-> RenamedEntries, dir |-> <<>>, mark |-> 0]>>
    /\ log' = <<>>
    /\ status' = "running"
    /\ fs0' = [name |-> name, alive |-> alive, changed |-> name # fs0.name,
               complete |-> \A i \in DOMAIN log : log[i].result \in {"ok", "zero"}]
    /\ UNCHANGED <<settings, name, alive, calc>>

----------------------------------------------------------------------------
(* Initial states *)

NameSet == {<<"A">>, <<"a", "b">>, <<"b">>}

\* base names of the tree: entries of one directory have distinct names
InitNames ==
    {nm \in [Node -> NameSet] :
        \A m, n \in Node : (m # n /\ Parent[m] = Parent[n]) => nm[m] # nm[n]}

Template == <<"m", "v", " ", "-", "f">>

\* -o A -n ab; -o A -n ab -l -u; -o A -n b -l -u; -o A -n ab -l -c 'mv -f'
SettingsSet ==
    {[old_name_regex |-> <<"A">>, new_name_pat |-> c[1],
      handle_lower |-> c[2], handle_upper |-> c[3], ren_cmd |-> c[4]] :
        c \in {<<<<"a", "b">>, FALSE, FALSE, <<>>>>,
               <<<<"a", "b">>, TRUE, TRUE, <<>>>>,
               <<<<"b">>, TRUE, TRUE, <<>>>>,
               <<<<"a", "b">>, TRUE, FALSE, Template>>}}

NoCalc == [b |-> <<>>, old |-> <<>>, new |-> <<>>, l |-> FALSE, u |-> FALSE,
           out |-> <<>>, done |-> TRUE]

\* the FILE... arguments: the whole tree, or up to MaxEntries paths, each
\* the file 2, the directory 3 or the file 4 in it, repetitions allowed
ArgSeqs(nm) ==
    {<<PathOf(nm, 1)>>}
        \cup UNION {[1..k -> {PathOf(nm, n) : n \in {2, 3, 4}}] : k \in 1..MaxEntries}

InitRun(args) ==
    /\ entries = args
    /\ stack = <<[todo |-> args, dir |-> <<>>, mark |-> 0]>>
    /\ alive = Node
    /\ log = <<>>
    /\ status = "running"
    /\ runNo = "first"
    /\ fs0 = [name |-> name, alive |-> Node, changed |-> FALSE, complete |-> FALSE]
    /\ calc = NoCalc

Init ==
    /\ settings \in SettingsSet
    /\ name \in {nm \in InitNames : nm[1] = <<"b">> /\ nm[2] = <<"a", "b">>}
    /\ \E args \in ArgSeqs(name) : InitRun(args)

Next == RunTree \/ RunObj \/ TreeObj \/ MainReturn

Spec == Init /\ [][Next]_vars

\* two runs in a row over the whole tree
InitTwice ==
    /\ settings \in SettingsSet
    /\ name \in InitNames
    /\ InitRun(<<PathOf(name, 1)>>)

NextTwice == Next \/ SecondRun

SpecTwice == InitTwice /\ [][NextTwice]_vars

\* the name computation on its own
InitName ==
    /\ calc \in [b : StringsOf(1, MaxNameLen), old : StringsOf(1, MaxPatLen),
                 new : StringsOf(1, MaxPatLen), l : BOOLEAN, u : BOOLEAN,
                 out : {<<>>}, done : {FALSE}]
    /\ settings = [old_name_regex |-> calc.old, new_name_pat |-> calc.new,
                   handle_lower |-> calc.l, handle_upper |-> calc.u,
                   ren_cmd |-> <<>>]
    /\ name = [n \in Node |-> <<>>]
    /\ alive = {}
    /\ entries = <<>>
    /\ stack = <<>>
    /\ log = <<>>
    /\ status = "done"
    /\ runNo = "first"
    /\ fs0 = [name |-> name, alive |-> {}, changed |-> FALSE, complete |-> FALSE]

\* _rename_obj computes the new base name of calc.b
Compute ==
    /\ ~calc.done
    /\ calc' = [calc EXCEPT !.out = NewBaseName(calc.b, settings.old_name_regex,
                                settings.new_name_pat, settings.handle_lower,
                                settings.handle_upper),
                            !.done = TRUE]
    /\ UNCHANGED <<settings, entries, name, alive, stack, log, status, runNo, fs0>>

NextName == Compute

SpecName == InitName /\ [][NextName]_vars

----------------------------------------------------------------------------
(* Properties *)

\* the attempts of the current run that acted on entry n
Attempts(n) == {i \in DOMAIN log : n \in log[i].node}

\* the entries the arguments named when the run started
Roots == UNION {Resolve(fs0.name, fs0.alive, entries[i]) : i \in DOMAIN entries}

\* the entries of the trees below the arguments
Reached == Roots \cup UNION {Descendants(r) : r \in Roots}

IsPrefix(p, q) == Len(p) <= Len(q) /\ SubSeq(q, 1, Len(p)) = p

\* no argument is given twice and none lies inside another
Independent ==
    \A i, j \in DOMAIN entries : i # j => ~IsPrefix(entries[i], entries[j])

\* no rename so far had an existing entry as its target
NoClash == \A i \in DOMAIN log : ~log[i].clash

Matches(pat, s, ic) == \E i \in 1..Len(s) : MatchAt(pat, s, i, ic)

\* C1: when _rename_tree attempts the rename of a directory, every entry
\* below that directory has had its rename attempted earlier, within the same
\* _rename_tree call.
C1_DescendantsFirst ==
    \A i \in DOMAIN log :
        log[i].tree =>
            \A d \in log[i].node :
                \A c \in Descendants(d) \cap log[i].alive :
                    \E j \in (log[i].since + 1)..(i - 1) : c \in log[j].node

\* the whole tree was processed: entry 1 is attempted last, after the file
\* 4 two levels below it and after its subdirectory 3
C1_Witness ==
    /\ status = "done"
    /\ Len(log) = Cardinality(Node)
    /\ log[Len(log)].tree /\ log[Len(log)].node = {1}
    /\ \E j, k \in DOMAIN log : j < k /\ log[j].node = {4} /\ log[k].node = {3}

C3_LaunchFailureContinues ==
    status = "aborted" => log[Len(log)].result # "nolaunch"

\* C3 amended: a command that cannot be launched aborts the run; the
\* failed attempt is the last attempt of the run.
C3_LaunchFailureAborts ==
    \A i \in DOMAIN log :
        log[i].result = "nolaunch" => (i = Len(log) /\ status = "aborted")

\* the launch failed after an earlier attempt, and an entry is left unattempted
C3_Witness ==
    /\ status = "aborted" /\ Len(log) > 1
    /\ log[Len(log)].result = "nolaunch"
    /\ \E n \in Reached : Attempts(n) = {}

\* C4: a nonzero exit status of the command never stops the run: the run
\* is still going, or returned normally, right after such an attempt.
C4_NonzeroContinues ==
    \A i \in DOMAIN log :
        (log[i].result = "nonzero" /\ i = Len(log)) =>
            \/ status = "running" /\ stack # <<>>
            \/ status = "done"

\* the command failed on the first entry and the run went on to return
C4_Witness ==
    /\ status = "done" /\ Len(log) > 2
    /\ log[1].result = "nonzero"
    /\ \A n \in Reached : Attempts(n) # {}

\* C5: a failing os.rename aborts the run: it is the last attempt, and
\* the filesystem is as the earlier renames left it.
C5_NativeFailureAborts ==
    \A i \in DOMAIN log :
        log[i].result = "error" =>
            /\ i = Len(log) /\ status = "aborted"
            /\ name = log[i].names /\ alive = log[i].alive

\* os.rename failed after a rename that changed a name, with entries left
C5_Witness ==
    /\ status = "aborted" /\ Len(log) > 1
    /\ log[Len(log)].result = "error"
    /\ name # fs0.name
    /\ \E n \in Reached : Attempts(n) = {}

C7_DirectWins ==
    (calc.done /\ sub(calc.old, calc.new, calc.b, FALSE) # calc.b) =>
        calc.out = sub(calc.old, calc.new, calc.b, FALSE)

\* a lower-case name with both options set, where the lower-cased
\* case-insensitive result differs from the direct one
C7_Witness ==
    /\ calc.done /\ calc.l /\ calc.u
    /\ lower(calc.b) = calc.b
    /\ sub(calc.old, calc.new, calc.b, FALSE) # calc.b
    /\ lower(sub(calc.old, calc.new, calc.b, TRUE)) # sub(calc.old, calc.new, calc.b, FALSE)

\* C8: a name that is neither all lower-case nor all upper-case (mixed, or
\* without cased characters) and that the case-sensitive substitution leaves
\* alone stays as it is.
C8_MixedUnchanged ==
    (/\ calc.done
     /\ (lower(calc.b) = calc.b) = (upper(calc.b) = calc.b)
     /\ sub(calc.old, calc.new, calc.b, FALSE) = calc.b) =>
        calc.out = calc.b

\* a mixed-case name, both options set, that a case-insensitive
\* substitution would change
C8_Witness ==
    /\ calc.done /\ calc.l /\ calc.u
    /\ lower(calc.b) # calc.b /\ upper(calc.b) # calc.b
    /\ sub(calc.old, calc.new, calc.b, FALSE) = calc.b
    /\ sub(calc.old, calc.new, calc.b, TRUE) # calc.b

\* C9: for an all-lower-case name that the case-sensitive substitution
\* leaves alone, with the lower-case option the new base name is the
\* lower-cased case-insensitive result.
C9_LowerFallback ==
    (/\ calc.done /\ calc.l
     /\ lower(calc.b) = calc.b
     /\ sub(calc.old, calc.new, calc.b, FALSE) = calc.b) =>
        calc.out = lower(sub(calc.old, calc.new, calc.b, TRUE))

\* the fallback changes the name, and lower-casing changes the candidate
C9_Witness ==
    /\ calc.done /\ calc.l /\ calc.u
    /\ lower(calc.b) = calc.b
    /\ sub(calc.old, calc.new, calc.b, FALSE) = calc.b
    /\ lower(sub(calc.old, calc.new, calc.b, TRUE)) # calc.b
    /\ lower(sub(calc.old, calc.new, calc.b, TRUE)) # sub(calc.old, calc.new, calc.b, TRUE)

\* C10 as stated: a second run, started after a first run that renamed the
\* tree and when the old pattern matches none of the names, changes nothing.
C10_SecondRunNoop ==
    (/\ runNo = "second" /\ fs0.changed /\ fs0.complete
     /\ \A n \in fs0.alive : ~Matches(settings.old_name_regex, fs0.name[n], FALSE)) =>
        (name = fs0.name /\ alive = fs0.alive)

\* C10 amended: a second run, started when the old pattern matches none of
\* the names, and with a case option set matches none of them ignoring case
\* either, changes nothing.
C10_SecondRunNoopAnyCase ==
    (/\ runNo = "second"
     /\ \A n \in fs0.alive :
           /\ ~Matches(settings.old_name_regex, fs0.name[n], FALSE)
           /\ (settings.handle_lower \/ settings.handle_upper) =>
                 ~Matches(settings.old_name_regex, fs0.name[n], TRUE)) =>
        (name = fs0.name /\ alive = fs0.alive)

\* the first run renamed something, the second run started with no match,
\* a case option set, and went through the whole tree
C10_Witness ==
    /\ runNo = "second" /\ status = "done" /\ fs0.changed /\ fs0.complete
    /\ settings.handle_lower
    /\ \A n \in fs0.alive : ~Matches(settings.old_name_regex, fs0.name[n], TRUE)
    /\ \A n \in fs0.alive : Attempts(n) # {}

====
